---- MODULE Spec2Model ----
(***************************************************************************)
(* Verification model of the peptide search engine:                        *)
(*   - suffixarray/src/lib.rs    : execute_search / search_peptide         *)
(*   - suffixarray/src/binary.rs : the (sample rate, suffix array) codec   *)
(*   - tsv-utils/src/lib.rs      : ingestion of the protein database       *)
(*   - src/lca_calculator.rs     : taxon annotation of the suffix tree     *)
(*   - src/searcher.rs           : search in the suffix tree               *)
(* Text is modelled as sequences of one-character strings.  Each program   *)
(* has its own specification (Spec, CodecSpec, IngestSpec, LcaSpec,        *)
(* SearcherSpec); the variables of the other programs stay at their idle   *)
(* values.                                                                 *)
(***************************************************************************)
EXTENDS Integers, Sequences, FiniteSets, TLC

VARIABLES
    \* ---- execute_search (suffixarray/src/lib.rs)
    search_file,        \* the lines of the search file
    query_fail_at,      \* the line of the search file whose read fails (0: none)
    all_peptides,       \* Vec<String>: the lines read from the search file
    mode,               \* args.mode
    equalize_i_and_l,   \* args.equalize_i_and_l
    sample_rate,        \* searcher.sample_rate
    processed,          \* indices whose search_peptide call has returned
    results,            \* the collected Vec<String>, by index
    calls,              \* per index, the searcher operations invoked (with arguments and returns)
    stdout,             \* the lines printed to standard output, in order
    print_index,        \* position of the sequential for_each
    pc,                 \* "idle" | "read" | "search" | "output" | "done"
    \* ---- write_binary / load_binary (suffixarray/src/binary.rs)
    suffix_array,       \* the Vec<i64> handed to write_binary
    rate_byte,          \* the u8 handed to write_binary
    file,               \* the bytes of the _sa.bin file
    start_index,        \* write_binary's loop variable
    tampered,           \* the file was cut short after it was written
    pos,                \* the reader's position in the file
    loaded_rate,        \* read_sa_file's sample_rate
    sa,                 \* read_sa_file's sa
    cpc,                \* "idle" | "create" | "write" | "written" | "open" | "read" | "loaded" | "io_error" | "panic"
    \* ---- get_proteins_from_database_file / get_text_from_database_file (tsv-utils/src/lib.rs)
    database,           \* the rows of the database file, each a sequence of fields
    fail_at,            \* the line whose read fails (0: none)
    reader,             \* "proteins" | "text": which of the two functions runs
    line_no,            \* number of lines consumed so far
    input_string,       \* the text under construction
    proteins,           \* Vec<Protein> under construction
    begin_index,        \* start offset of the next protein
    ipc,                \* "idle" | "loop" | "ok" | "format_error" | "parse_error" | "panic"
    \* ---- stack_calculate_lcas (src/lca_calculator.rs)
    arena,              \* tree.arena: per node index, its children array and suffix_index
    tree_proteins,      \* proteins: the taxon id of each protein
    taxon_id,           \* per node index, the node's taxon_id field
    stack,              \* Vec<(NodeIndex, bool)>, top last
    stack_calculated_children,  \* Vec<Vec<TaxonId>>, top last
    write_log,          \* the node indices whose taxon_id was assigned, in order
    lpc,                \* "idle" | "loop" | "done" | "panic" | "unwrap_none"
    \* ---- Searcher (src/searcher.rs)
    cursor,             \* Searcher.cursor
    searched,           \* the search strings of the calls of search_protein so far
    solutions_list,     \* the Vec<String> the last call returned
    spc                 \* "idle" | "ready"

searchVars == <<search_file, query_fail_at, all_peptides, mode, equalize_i_and_l, sample_rate, processed,
                results, calls, stdout, print_index, pc>>
codecVars  == <<suffix_array, rate_byte, file, start_index, tampered, pos,
                loaded_rate, sa, cpc>>
ingestVars == <<database, fail_at, reader, line_no, input_string, proteins,
                begin_index, ipc>>
lcaVars    == <<arena, tree_proteins, taxon_id, stack, stack_calculated_children,
                write_log, lpc>>
searcherVars == <<cursor, searched, solutions_list, spc>>
vars == <<searchVars, codecVars, ingestVars, lcaVars, searcherVars>>

(***************************************************************************)
(* Bounds of the model.                                                    *)
(***************************************************************************)
MaxLines == 2       \* lines in the search file
MaxSaLen == 4       \* entries in the suffix array
ChunkEntries == 2   \* suffix array entries per chunk (ONE_GIB/8, scaled down)
MaxRows == 3        \* rows in the protein database
MaxNodes == 5       \* nodes in the arena of the suffix tree
MaxSearchLen == 2   \* characters in a string searched for in the suffix tree
MaxSearches == 2    \* calls of search_protein on one Searcher

(***************************************************************************)
(* Small helpers on sequences.                                             *)
(***************************************************************************)
Min(a, b) == IF a < b THEN a ELSE b

SeqsUpTo(S, n) == UNION {[1..k -> S] : k \in 0..n}

RECURSIVE Flatten(_)
Flatten(ss) == IF ss = <<>> THEN <<>> ELSE Head(ss) \o Flatten(Tail(ss))

(***************************************************************************)
(* Characters.  str::to_uppercase on the letters the model uses.           *)
(***************************************************************************)
ToUpperChar(c) ==
    CASE c = "a" -> "A"
      [] c = "b" -> "B"
      [] c = "i" -> "I"
      [] c = "l" -> "L"
      [] OTHER   -> c

ToUppercase(s) == [j \in 1..Len(s) |-> ToUpperChar(s[j])]

\* word.strip_suffix('\n').unwrap_or(word)
StripNewline(s) ==
    IF Len(s) > 0 /\ s[Len(s)] = "\n" THEN SubSeq(s, 1, Len(s) - 1) ELSE s

\* Display of an unsigned integer (format!("{id}")).
DigitChar(d) == <<"0", "1", "2", "3", "4", "5", "6", "7", "8", "9">>[d + 1]

RECURSIVE FormatNat(_)
FormatNat(n) ==
    IF n < 10 THEN <<DigitChar(n)>>
    ELSE FormatNat(n \div 10) \o <<DigitChar(n % 10)>>

\* Display of a bool.
FormatBool(b) == IF b THEN <<"t", "r", "u", "e">> ELSE <<"f", "a", "l", "s", "e">>

\* Debug of a Vec of unsigned integers: "[a, b]".
RECURSIVE FormatItems(_)
FormatItems(xs) ==
    IF xs = <<>> THEN <<>>
    ELSE IF Len(xs) = 1 THEN FormatNat(xs[1])
    ELSE FormatNat(xs[1]) \o <<",", " ">> \o FormatItems(Tail(xs))

FormatVec(xs) == <<"[">> \o FormatItems(xs) \o <<"]">>

\* Debug of a pair of unsigned integers: "(a, b)".
FormatPair(p) == <<"(">> \o FormatNat(p[1]) \o <<",", " ">> \o FormatNat(p[2]) \o <<")">>

(***************************************************************************)
(* suffixarray/src/lib.rs : search_peptide                                 *)
(***************************************************************************)
Modes == {"Match", "MinMaxBound", "AllOccurrences", "TaxonId", "Analyses"}

\* Arguments::cutoff, default_value_t
Cutoff == 10000

\* Option<TaxonId>
None == [some |-> FALSE, id |-> 0]
Some(id) == [some |-> TRUE, id |-> id]

\* Mutant of ReplaceLWithI: the translation the wrong way round.
ReplaceIWithL(character) == IF character = "I" THEN "L" ELSE character

\* The closure of the L-to-I translation: 'L' => 'I', _ => character.
ReplaceLWithI(character) == IF character = "L" THEN "I" ELSE character

\* let mut peptide = word.strip_suffix('\n').unwrap_or(word).to_uppercase();
\* if equalize_i_and_l { peptide = peptide.chars().map(..).collect() }
NormalizePeptide(word, flag) ==
    LET upper == ToUppercase(StripNewline(word))
    IN  IF flag THEN [j \in 1..Len(upper) |-> ReplaceLWithI(upper[j])] ELSE upper

\* Mutant of TooShort: a peptide of exactly the sample rate is rejected too.
TooShortOrEqual(peptide, rate) == Len(peptide) <= rate

\* if peptide.len() < searcher.sample_rate as usize
TooShort(peptide, rate) == Len(peptide) < rate

TooShortDiagnostic == <<"/ (word too short short for SA sample size)">>

\* One entry of the log of searcher operations: a search takes the peptide
\* and the I/L flag, the other operations take what a search returned.
Call(op, peptide, flag, arg, ret) ==
    [op |-> op, peptide |-> peptide, flag |-> flag, arg |-> arg, ret |-> ret]

Resolve(op, arg, ret) == [op |-> op, arg |-> arg, ret |-> ret]

SearchOps == {"search_if_match", "search_bounds", "search_protein",
              "search_matching_suffixes"}

\* What the searcher, which is read-only and outside this model, may answer.
BoundsAnswers == {<<FALSE, <<0, 0>>>>, <<TRUE, <<1, 12>>>>}
ProteinAnswers == {<<>>, <<0, 1>>}
SuffixAnswers == {<<TRUE, <<2>>>>, <<FALSE, <<2, 7>>>>}
LcaAnswers == {None, Some(6)}

\* An outcome of search_peptide: the returned String, the lines it printed
\* itself, and the searcher operations it invoked.
Outcome(result, printed, log) == [result |-> result, printed |-> printed, log |-> log]

\* SearchMode::Match
MatchOutcome(peptide, flag, found) ==
    Outcome(FormatBool(found), <<>>,
            <<Call("search_if_match", peptide, flag, <<>>, found)>>)

\* SearchMode::MinMaxBound
MinMaxBoundOutcome(peptide, flag, answer) ==
    Outcome(FormatBool(answer[1]) \o <<";">> \o FormatPair(answer[2]), <<>>,
            <<Call("search_bounds", peptide, flag, <<>>, answer)>>)

\* SearchMode::AllOccurrences
AllOccurrencesOutcome(peptide, flag, found) ==
    Outcome(FormatNat(Len(peptide)) \o <<";">> \o FormatNat(Len(found)) \o <<";">>,
            <<FormatVec(found)>>,
            <<Call("search_protein", peptide, flag, <<>>, found)>>)

\* if let Some(id) = result { format!("{id}") } else { "/".to_string() }
FormatTaxon(result) == IF result.some THEN FormatNat(result.id) ELSE <<"/">>

\* Mutant of TaxonIdOutcome: the cutoff is not looked at, the LCA is always
\* computed.
TaxonIdIgnoringCutoff(peptide, flag, answer, prots, lca) ==
    LET search == Call("search_matching_suffixes", peptide, flag, <<Cutoff>>, answer)
    IN  Outcome(FormatTaxon(lca), <<>>,
                <<search,
                  Resolve("retrieve_proteins", answer[2], prots),
                  Resolve("retrieve_lca", prots, lca)>>)

\* SearchMode::TaxonId
TaxonIdOutcome(peptide, flag, answer, prots, lca) ==
    LET cutoff_used == answer[1]
        suffixes == answer[2]
        search == Call("search_matching_suffixes", peptide, flag, <<Cutoff>>, answer)
    IN  IF cutoff_used
        THEN Outcome(FormatTaxon(Some(1)), <<>>, <<search>>)
        ELSE Outcome(FormatTaxon(lca), <<>>,
                     <<search,
                       Resolve("retrieve_proteins", suffixes, prots),
                       Resolve("retrieve_lca", prots, lca)>>)

\* SearchMode::Analyses
AnalysesOutcome(peptide, flag, answer, prots, lca) ==
    LET cutoff_used == answer[1]
        suffixes == answer[2]
        search == Call("search_matching_suffixes", peptide, flag, <<Cutoff>>, answer)
        resolve == Resolve("retrieve_proteins", suffixes, prots)
        result == IF cutoff_used THEN Some(1) ELSE lca
        lookup == IF cutoff_used THEN <<>>
                  ELSE <<Resolve("retrieve_lca", prots, lca)>>
    IN  IF result.some
        THEN Outcome(FormatNat(result.id) \o <<";">> \o FormatVec(prots), <<>>,
                     <<search, resolve>> \o lookup \o
                     <<Resolve("get_uniprot_and_taxa_ids", prots, prots)>>)
        ELSE Outcome(<<"/">>, <<>>, <<search, resolve>> \o lookup)

\* The outcomes search_peptide can have on one word.
SearchPeptideOutcomes(word, search_mode, rate, flag) ==
    LET peptide == NormalizePeptide(word, flag)
    IN  IF TooShort(peptide, rate)
        THEN {Outcome(<<>>, <<TooShortDiagnostic>>, <<>>)}
        ELSE CASE search_mode = "Match" ->
                    {MatchOutcome(peptide, flag, found) : found \in BOOLEAN}
               [] search_mode = "MinMaxBound" ->
                    {MinMaxBoundOutcome(peptide, flag, answer) : answer \in BoundsAnswers}
               [] search_mode = "AllOccurrences" ->
                    {AllOccurrencesOutcome(peptide, flag, found) : found \in ProteinAnswers}
               [] search_mode = "TaxonId" ->
                    {TaxonIdOutcome(peptide, flag, answer, prots, lca) :
                        answer \in SuffixAnswers, prots \in ProteinAnswers, lca \in LcaAnswers}
               [] search_mode = "Analyses" ->
                    {AnalysesOutcome(peptide, flag, answer, prots, lca) :
                        answer \in SuffixAnswers, prots \in ProteinAnswers, lca \in LcaAnswers}

(***************************************************************************)
(* suffixarray/src/lib.rs : execute_search                                 *)
(***************************************************************************)
\* The peptide lines a search file may hold, and the sample rates.
PeptideLines == {<<"l">>, <<"a", "L">>, <<"I", "l", "a">>}
SampleRates == {1, 2}

SearchIdle ==
    /\ search_file = <<>> /\ query_fail_at = 0
    /\ all_peptides = <<>> /\ mode = "Match" /\ equalize_i_and_l = FALSE
    /\ sample_rate = 1 /\ processed = {} /\ results = <<>> /\ calls = <<>>
    /\ stdout = <<>> /\ print_index = 1 /\ pc = "idle"

SearchInit ==
    /\ search_file \in SeqsUpTo(PeptideLines, MaxLines)
    /\ query_fail_at \in 0..Len(search_file)
    /\ all_peptides = <<>>
    /\ mode \in Modes
    /\ equalize_i_and_l \in BOOLEAN
    /\ sample_rate \in SampleRates
    /\ processed = {}
    /\ results = <<>>
    /\ calls = <<>>
    /\ stdout = <<>>
    /\ print_index = 1
    /\ pc = "read"

\* lines.map_while(Result::ok): the lines up to, and without, the first one
\* whose read fails.
MapWhileOk(lines, failing) ==
    IF failing = 0 THEN lines ELSE SubSeq(lines, 1, failing - 1)

\* let lines = read_lines(search_file)?;
\* let all_peptides: Vec<String> = lines.map_while(Result::ok).collect();
ReadLines ==
    /\ pc = "read"
    /\ UNCHANGED <<codecVars, ingestVars, lcaVars, searcherVars>>
    /\ all_peptides' = MapWhileOk(search_file, query_fail_at)
    /\ results' = [i \in 1..Len(all_peptides') |-> <<>>]
    /\ calls' = [i \in 1..Len(all_peptides') |-> <<>>]
    /\ pc' = "search"
    /\ UNCHANGED <<search_file, query_fail_at, mode, equalize_i_and_l, sample_rate,
                   processed, stdout, print_index>>

\* One item of all_peptides.par_iter().map(|peptide| search_peptide(..)):
\* any worker may take any item that is still to do.
SearchPeptide(i) ==
    /\ pc = "search"
    /\ UNCHANGED <<codecVars, ingestVars, lcaVars, searcherVars>>
    /\ i \notin processed
    /\ \E o \in SearchPeptideOutcomes(all_peptides[i], mode, sample_rate, equalize_i_and_l) :
        /\ results' = [results EXCEPT ![i] = o.result]
        /\ calls' = [calls EXCEPT ![i] = o.log]
        /\ stdout' = stdout \o o.printed
    /\ processed' = processed \cup {i}
    /\ UNCHANGED <<search_file, query_fail_at, all_peptides, mode, equalize_i_and_l, sample_rate, print_index, pc>>

\* .collect::<Vec<String>>() returns once every item is done.
Collect ==
    /\ pc = "search"
    /\ UNCHANGED <<codecVars, ingestVars, lcaVars, searcherVars>>
    /\ processed = 1..Len(all_peptides)
    /\ pc' = "output"
    /\ UNCHANGED <<search_file, query_fail_at, all_peptides, mode, equalize_i_and_l, sample_rate, processed,
                   results, calls, stdout, print_index>>

\* println!("{};{}", all_peptides[index], res)
OutputLine(index, res) == all_peptides[index] \o <<";">> \o res

\* One step of .iter().enumerate().for_each(..).
PrintResult ==
    /\ pc = "output"
    /\ UNCHANGED <<codecVars, ingestVars, lcaVars, searcherVars>>
    /\ print_index <= Len(results)
    /\ stdout' = Append(stdout, OutputLine(print_index, results[print_index]))
    /\ print_index' = print_index + 1
    /\ UNCHANGED <<search_file, query_fail_at, all_peptides, mode, equalize_i_and_l, sample_rate, processed,
                   results, calls, pc>>

\* The for_each is over: execute_search returns Ok(()).
Finish ==
    /\ pc = "output"
    /\ UNCHANGED <<codecVars, ingestVars, lcaVars, searcherVars>>
    /\ print_index > Len(results)
    /\ pc' = "done"
    /\ UNCHANGED <<search_file, query_fail_at, all_peptides, mode, equalize_i_and_l, sample_rate, processed,
                   results, calls, stdout, print_index>>

SearchNext ==
    \/ ReadLines
    \/ \E i \in 1..Len(all_peptides) : SearchPeptide(i)
    \/ Collect
    \/ PrintResult
    \/ Finish


(***************************************************************************)
(* suffixarray/src/binary.rs : Serializable for [i64], deserialize_sa      *)
(***************************************************************************)
\* const ONE_GIB, scaled down; like 2^30 it is a multiple of 8.
ONE_GIB == 8 * ChunkEntries

\* The i64 entries and the sample rates the model draws from.
SaValues == {-12315135, 5, 16909060}
RateBytes == {1, 3}

\* The file that may already stand where write_binary creates its own.
StaleFiles == {<<>>, <<7, 7, 7>>}

\* The n low bytes of the two's-complement form of v, least significant first.
RECURSIVE LowBytes(_, _)
LowBytes(v, n) == IF n = 0 THEN <<>> ELSE <<v % 256>> \o LowBytes(v \div 256, n - 1)

\* Mutant of ToLeBytes: the bytes most significant first (to_be_bytes).
ToBeBytes(entry) == [j \in 1..8 |-> LowBytes(entry, 8)[9 - j]]

\* i64::to_le_bytes
ToLeBytes(entry) == LowBytes(entry, 8)

\* <[i64] as Serializable>::serialize
Serialize(xs) == Flatten([i \in 1..Len(xs) |-> ToLeBytes(xs[i])])

\* Horner evaluation of bytes[1..j] below the accumulated high part.
RECURSIVE Horner(_, _, _)
Horner(acc, bytes, j) == IF j = 0 THEN acc ELSE Horner(acc * 256 + bytes[j], bytes, j - 1)

\* i64::from_le_bytes: the top byte carries the sign.
FromLeBytes(bytes) ==
    Horner(IF bytes[8] >= 128 THEN bytes[8] - 256 ELSE bytes[8], bytes, 7)

\* Mutant of DeserializeSa: the bytes after the last whole entry are dropped
\* without a word.
DeserializeWholeEntries(data) ==
    [panic |-> FALSE,
     value |-> [i \in 1..(Len(data) \div 8) |->
                   FromLeBytes(SubSeq(data, 8 * (i - 1) + 1, 8 * i))]]

\* deserialize_sa: panics unless the length is a multiple of 8.
DeserializeSa(data) ==
    IF Len(data) % 8 # 0
    THEN [panic |-> TRUE, value |-> <<>>]
    ELSE [panic |-> FALSE,
          value |-> [i \in 1..(Len(data) \div 8) |->
                        FromLeBytes(SubSeq(data, 8 * (i - 1) + 1, 8 * i))]]

(***************************************************************************)
(* suffixarray/src/binary.rs : write_binary, load_binary, read_sa_file     *)
(***************************************************************************)
CodecIdle ==
    /\ suffix_array = <<>> /\ rate_byte = 1 /\ file = <<>> /\ start_index = 0
    /\ tampered = FALSE /\ pos = 0 /\ loaded_rate = 0 /\ sa = <<>> /\ cpc = "idle"

CodecInit ==
    /\ suffix_array \in SeqsUpTo(SaValues, MaxSaLen)
    /\ rate_byte \in RateBytes
    /\ file \in StaleFiles
    /\ start_index = 0
    /\ tampered = FALSE
    /\ pos = 0
    /\ loaded_rate = 0
    /\ sa = <<>>
    /\ cpc = "create"

\* OpenOptions .create(true).write(true).truncate(true), then
\* f.write_all(&[sample_rate])
CreateFile(old, rate) == <<rate>>

WriteSampleRate ==
    /\ cpc = "create"
    /\ UNCHANGED <<searchVars, ingestVars, lcaVars, searcherVars>>
    /\ file' = CreateFile(file, rate_byte)
    /\ start_index' = 0
    /\ cpc' = "write"
    /\ UNCHANGED <<suffix_array, rate_byte, tampered, pos, loaded_rate, sa>>

\* Mutant of EndIndex: the chunk ends one entry early.
EndIndexOneEarly(start, sa_len) == Min(start + ONE_GIB \div 8 - 1, sa_len)

\* end_index = min(start_index + ONE_GIB/8, sa_len)
EndIndex(start, sa_len) == Min(start + ONE_GIB \div 8, sa_len)

\* One turn of: for start_index in (0..sa_len).step_by(ONE_GIB/8)
WriteChunk ==
    /\ cpc = "write"
    /\ UNCHANGED <<searchVars, ingestVars, lcaVars, searcherVars>>
    /\ start_index < Len(suffix_array)
    /\ file' = file \o Serialize(SubSeq(suffix_array, start_index + 1,
                                        EndIndex(start_index, Len(suffix_array))))
    /\ start_index' = start_index + ONE_GIB \div 8
    /\ UNCHANGED <<suffix_array, rate_byte, tampered, pos, loaded_rate, sa, cpc>>

\* The loop is over: the _sa.bin file is complete.  (write_binary goes on to
\* write the text to _text.bin, a file load_binary never opens.)
WriteDone ==
    /\ cpc = "write"
    /\ UNCHANGED <<searchVars, ingestVars, lcaVars, searcherVars>>
    /\ start_index >= Len(suffix_array)
    /\ cpc' = "written"
    /\ UNCHANGED <<suffix_array, rate_byte, file, start_index, tampered, pos,
                   loaded_rate, sa>>

\* The environment: the index file handed to load_binary may have been cut
\* short at any byte.
CutFile ==
    /\ cpc = "written"
    /\ UNCHANGED <<searchVars, ingestVars, lcaVars, searcherVars>>
    /\ ~tampered
    /\ \E n \in 0..(Len(file) - 1) : file' = SubSeq(file, 1, n)
    /\ tampered' = TRUE
    /\ UNCHANGED <<suffix_array, rate_byte, start_index, pos, loaded_rate, sa, cpc>>

\* load_binary -> read_sa_file: file.read_exact(&mut sample_rate_buffer)
ReadSampleRate ==
    /\ cpc = "written"
    /\ UNCHANGED <<searchVars, ingestVars, lcaVars, searcherVars>>
    /\ IF Len(file) < 1
       THEN /\ cpc' = "io_error"
            /\ UNCHANGED <<pos, loaded_rate, sa>>
       ELSE /\ loaded_rate' = file[1]
            /\ pos' = 1
            /\ sa' = <<>>
            /\ cpc' = "read"
    /\ UNCHANGED <<suffix_array, rate_byte, file, start_index, tampered>>

\* file.take(ONE_GIB as u64).read_to_end(&mut buffer)
TakeBuffer(bytes, from) == SubSeq(bytes, from + 1, Min(from + ONE_GIB, Len(bytes)))

\* One turn of read_sa_file's loop.
ReadChunk ==
    /\ cpc = "read"
    /\ UNCHANGED <<searchVars, ingestVars, lcaVars, searcherVars>>
    /\ LET buffer == TakeBuffer(file, pos)
           count == Len(buffer)
           entries == DeserializeSa(buffer)
       IN  IF count = 0
           THEN /\ cpc' = "loaded"
                /\ UNCHANGED <<pos, sa>>
           ELSE IF entries.panic
           THEN /\ cpc' = "panic"
                /\ pos' = pos + count
                /\ UNCHANGED sa
           ELSE /\ sa' = sa \o entries.value
                /\ pos' = pos + count
                /\ UNCHANGED cpc
    /\ UNCHANGED <<suffix_array, rate_byte, file, start_index, tampered, loaded_rate>>

CodecNext ==
    \/ WriteSampleRate
    \/ WriteChunk
    \/ WriteDone
    \/ CutFile
    \/ ReadSampleRate
    \/ ReadChunk


(***************************************************************************)
(* tsv-utils/src/lib.rs : get_proteins_from_database_file,                 *)
(*                        get_text_from_database_file                      *)
(***************************************************************************)
SEPARATION_CHARACTER == "-"
END_CHARACTER == "$"
\* sa_mappings::proteins::TERMINATION_CHARACTER
TERMINATION_CHARACTER == "$"

\* The taxon ids the taxonomy knows (taxon_id_exists / taxon_exists).
KnownTaxa == {9, 10}
TaxonExists(id) == id \in KnownTaxa

\* The lines a database file may hold.
DatabaseLines == {
    <<"P", "\t", "1", "0", "\t", "a", "b">>,            \* known taxon, lower case
    <<"Q", "\t", "7", "\t", "B", "A">>,                 \* unknown taxon
    <<"R", "\t", "9", "\t">>,                           \* known taxon, empty sequence
    <<"S", "\t", "9">>,                                 \* two fields
    <<"T", "\t", "9", "\t", "A", "\t", "x">>,           \* four fields
    <<"U", "\t", "x", "\t", "A">>,                      \* taxon id not an integer
    <<"V", "\t", "x">> }                                \* two fields, taxon id not an integer

\* line.split('\t'): the fields between the tabs, at least one.
RECURSIVE SplitFrom(_, _, _)
SplitFrom(line, j, current) ==
    IF j > Len(line) THEN <<current>>
    ELSE IF line[j] = "\t" THEN <<current>> \o SplitFrom(line, j + 1, <<>>)
    ELSE SplitFrom(line, j + 1, Append(current, line[j]))

SplitTab(line) == SplitFrom(line, 1, <<>>)

\* str::parse::<TaxonId>() on decimal digits.
IsDigit(c) == c \in {"0", "1", "2", "3", "4", "5", "6", "7", "8", "9"}
DigitValue(c) == CHOOSE d \in 0..9 : DigitChar(d) = c

RECURSIVE DigitsValue(_, _)
DigitsValue(s, acc) ==
    IF s = <<>> THEN acc ELSE DigitsValue(Tail(s), 10 * acc + DigitValue(Head(s)))

ParseTaxonId(s) ==
    IF Len(s) > 0 /\ \A j \in 1..Len(s) : IsDigit(s[j])
    THEN [ok |-> TRUE, value |-> DigitsValue(s, 0)]
    ELSE [ok |-> FALSE, value |-> 0]

\* The state of the loops: (input_string, proteins, begin_index, outcome).
IngestState(text, prots, begin, status) ==
    [input_string |-> text, proteins |-> prots, begin_index |-> begin, status |-> status]

\* if begin_index != 0 { input_string.push(SEPARATION_CHARACTER as char); }
PushSeparator(text, begin) ==
    IF begin # 0 THEN Append(text, SEPARATION_CHARACTER) ELSE text

\* Mutant of NextBegin: the separator is not counted.
NextBeginNoSeparator(begin, protein_sequence) == begin + Len(protein_sequence)

\* begin_index += protein_sequence.len() + 1;
NextBegin(begin, protein_sequence) == begin + Len(protein_sequence) + 1

\* The row is accepted: lines 66-77 of get_proteins_from_database_file.
PushProtein(st, uniprot_id, id, protein_sequence) ==
    IngestState(PushSeparator(st.input_string, st.begin_index) \o ToUppercase(protein_sequence),
                Append(st.proteins,
                       [uniprot_id |-> uniprot_id,
                        sequence |-> <<st.begin_index, Len(protein_sequence)>>,
                        id |-> id]),
                NextBegin(st.begin_index, protein_sequence),
                "loop")

\* Mutant of SkipProtein: a skipped row still takes an offset and leaves its
\* separator in the text.
SkipProteinKeepingSlot(st) ==
    [st EXCEPT !.begin_index = st.begin_index + 1,
               !.input_string = Append(st.input_string, SEPARATION_CHARACTER)]

\* The row's taxon id is not in the taxonomy: continue.
SkipProtein(st) == st

\* Mutant of ProteinsRow: a row of more than three fields is taken.
ProteinsRowAtLeastThree(st, line) ==
    LET parts == SplitTab(line)
        taxon == ParseTaxonId(parts[2])
    IN  IF Len(parts) < 3 THEN [st EXCEPT !.status = "format_error"]
        ELSE IF ~taxon.ok THEN [st EXCEPT !.status = "parse_error"]
        ELSE IF ~TaxonExists(taxon.value) THEN SkipProtein(st)
        ELSE PushProtein(st, parts[1], taxon.value, parts[3])

\* The body of the for loop of get_proteins_from_database_file on one line.
ProteinsRow(st, line) ==
    LET parts == SplitTab(line)
        taxon == ParseTaxonId(parts[2])
    IN  IF Len(parts) # 3 THEN [st EXCEPT !.status = "format_error"]
        ELSE IF ~taxon.ok THEN [st EXCEPT !.status = "parse_error"]
        ELSE IF ~TaxonExists(taxon.value) THEN SkipProtein(st)
        ELSE PushProtein(st, parts[1], taxon.value, parts[3])

\* input_string.push(END_CHARACTER as char); Ok(Proteins { .. })
ProteinsEnd(st) ==
    [st EXCEPT !.input_string = Append(st.input_string, END_CHARACTER), !.status = "ok"]

\* The row is accepted by get_text_from_database_file: lines 109-110.
PushText(st, sequence) ==
    [st EXCEPT !.input_string = (st.input_string \o ToUppercase(sequence))
                                    \o <<SEPARATION_CHARACTER>>]

\* The body of the while loop of get_text_from_database_file on one line.
TextRow(st, line) ==
    LET fields == SplitTab(line)
        taxon == ParseTaxonId(fields[2])
    IN  IF Len(fields) < 2 THEN [st EXCEPT !.status = "panic"]
        ELSE IF ~taxon.ok THEN [st EXCEPT !.status = "parse_error"]
        ELSE IF Len(fields) < 3 THEN [st EXCEPT !.status = "panic"]
        ELSE IF ~TaxonExists(taxon.value) THEN SkipProtein(st)
        ELSE PushText(st, fields[3])

\* String::pop
Pop(text) == IF text = <<>> THEN text ELSE SubSeq(text, 1, Len(text) - 1)

\* input_string.pop(); input_string.push(TERMINATION_CHARACTER.into());
TextEnd(st) ==
    [st EXCEPT !.input_string = Append(Pop(st.input_string), TERMINATION_CHARACTER),
               !.status = "ok"]

IngestIdle ==
    /\ database = <<>> /\ fail_at = 0 /\ reader = "proteins" /\ line_no = 0
    /\ input_string = <<>> /\ proteins = <<>> /\ begin_index = 0 /\ ipc = "idle"

IngestInit ==
    /\ database \in SeqsUpTo(DatabaseLines, MaxRows)
    /\ fail_at \in 0..Len(database)
    /\ reader \in {"proteins", "text"}
    /\ line_no = 0
    /\ input_string = <<>>
    /\ proteins = <<>>
    /\ begin_index = 0
    /\ ipc = "loop"

Current == IngestState(input_string, proteins, begin_index, ipc)

Become(st) ==
    /\ input_string' = st.input_string
    /\ proteins' = st.proteins
    /\ begin_index' = st.begin_index
    /\ ipc' = st.status

\* lines.map_while(Result::ok) / while let Some(Ok(line)): the next line is
\* there and its read succeeds.
HasLine == line_no < Len(database) /\ fail_at # line_no + 1

ReadProteinsRow ==
    /\ ipc = "loop" /\ reader = "proteins"
    /\ UNCHANGED <<searchVars, codecVars, lcaVars, searcherVars>>
    /\ HasLine
    /\ Become(ProteinsRow(Current, database[line_no + 1]))
    /\ line_no' = line_no + 1
    /\ UNCHANGED <<database, fail_at, reader>>

ReturnProteins ==
    /\ ipc = "loop" /\ reader = "proteins"
    /\ UNCHANGED <<searchVars, codecVars, lcaVars, searcherVars>>
    /\ ~HasLine
    /\ Become(ProteinsEnd(Current))
    /\ UNCHANGED <<database, fail_at, reader, line_no>>

ReadTextRow ==
    /\ ipc = "loop" /\ reader = "text"
    /\ UNCHANGED <<searchVars, codecVars, lcaVars, searcherVars>>
    /\ HasLine
    /\ Become(TextRow(Current, database[line_no + 1]))
    /\ line_no' = line_no + 1
    /\ UNCHANGED <<database, fail_at, reader>>

ReturnText ==
    /\ ipc = "loop" /\ reader = "text"
    /\ UNCHANGED <<searchVars, codecVars, lcaVars, searcherVars>>
    /\ ~HasLine
    /\ Become(TextEnd(Current))
    /\ UNCHANGED <<database, fail_at, reader, line_no>>

IngestNext ==
    \/ ReadProteinsRow
    \/ ReturnProteins
    \/ ReadTextRow
    \/ ReturnText

(***************************************************************************)
(* src/tree.rs : the arena of the suffix tree                              *)
(***************************************************************************)
\* usize::MAX, the index that stands for "no node" / "no suffix".
NULL == -1

IsNull(index) == index = NULL

\* Node: the children array (a slot holds a node index or NULL) and the
\* suffix index, which is not NULL exactly for a leaf.
Node(children, suffix_index) == [children |-> children, suffix_index |-> suffix_index]

\* The parent of every node but the root has a smaller index: the shapes of
\* the arenas of n nodes.
Shapes(n) == {p \in [1..(n - 1) -> 0..(n - 2)] : \A c \in 1..(n - 1) : p[c] < c}

HasChildren(p, n, node) == \E c \in 1..(n - 1) : p[c] = node

\* What a node is: a taxon id for a leaf, NULL for a node that is no leaf.
LeafTaxa == {0, 9, 10}
Labels(p, n) ==
    {l \in [0..(n - 1) -> LeafTaxa \cup {NULL}] :
        \A node \in 0..(n - 1) : HasChildren(p, n, node) => IsNull(l[node])}

LeavesBefore(l, node) == Cardinality({m \in 0..(node - 1) : ~IsNull(l[m])})

\* The arena of shape p and labels l; the i-th leaf points to protein i.
ArenaOf(p, l, n) ==
    [node \in 0..(n - 1) |->
        Node([c \in 1..(n - 1) |-> IF p[c] = node THEN c ELSE NULL],
             IF IsNull(l[node]) THEN NULL ELSE LeavesBefore(l, node))]

RECURSIVE ProteinsFrom(_, _, _)
ProteinsFrom(l, node, n) ==
    IF node >= n THEN <<>>
    ELSE (IF IsNull(l[node]) THEN <<>> ELSE <<l[node]>>) \o ProteinsFrom(l, node + 1, n)

\* The tree and the proteins of test_calculate_lcas.
FixtureArena ==
    (0 :> Node(<<1, NULL, NULL, 2, NULL, 3>>, NULL)
     @@ 1 :> Node(<<NULL, 4, NULL, NULL, NULL, 5>>, NULL)
     @@ 2 :> Node(<<NULL, NULL, NULL, NULL, NULL, NULL>>, 2)
     @@ 3 :> Node(<<NULL, NULL, NULL, NULL, NULL, NULL>>, 3)
     @@ 4 :> Node(<<NULL, NULL, NULL, NULL, NULL, NULL>>, 0)
     @@ 5 :> Node(<<NULL, NULL, NULL, NULL, NULL, NULL>>, 1))
FixtureProteins == <<10, 9, 20, 2>>

(***************************************************************************)
(* The taxonomy and the LCA* aggregator behind calculator.aggregate        *)
(***************************************************************************)
\* The taxonomy of the test fixture: the parent of every taxon (the root is
\* its own parent).
TaxonParent == (1 :> 1) @@ (2 :> 1) @@ (6 :> 1) @@ (20 :> 1) @@ (9 :> 6) @@ (10 :> 6)
TaxonIds == DOMAIN TaxonParent

RECURSIVE Lineage(_)
Lineage(t) == IF TaxonParent[t] = t THEN {t} ELSE {t} \cup Lineage(TaxonParent[t])

TaxonDepth(t) == Cardinality(Lineage(t))

\* The deepest taxon that every taxon of the set descends from.
LowestCommonAncestor(taxa) ==
    LET common == {a \in TaxonIds : \A t \in taxa : a \in Lineage(t)}
    IN CHOOSE a \in common : \A b \in common : TaxonDepth(b) <= TaxonDepth(a)

\* agg::count: how often each id occurs.
Count(ids) ==
    [t \in {ids[i] : i \in DOMAIN ids} |-> Cardinality({i \in DOMAIN ids : ids[i] = t})]

\* LCA*: a taxon that is an ancestor of another taxon of the input does not
\* count (the deeper one wins); the result is the lowest common ancestor of
\* the others.  An empty input is an error.
Aggregate(count) ==
    LET taxa == DOMAIN count
        tips == {t \in taxa : \A u \in taxa : u = t \/ t \notin Lineage(u)}
    IN IF taxa = {} THEN [ok |-> FALSE, id |-> NULL]
       ELSE [ok |-> TRUE, id |-> LowestCommonAncestor(tips)]

\* taxon_tree.snapping(&by_id, false): every id is its own snap.
Snapping == [id \in TaxonIds \cup {0} |-> Some(id)]

(***************************************************************************)
(* src/lca_calculator.rs                                                   *)
(***************************************************************************)
Returned(value) == [panic |-> FALSE, value |-> value]
Panicked == [panic |-> TRUE, value |-> NULL]

\* snap_taxon_id
SnapTaxonId(snapping, id) ==
    IF id \in DOMAIN snapping /\ snapping[id].some THEN Returned(snapping[id].id)
    ELSE Panicked

\* ids.into_iter().filter(|&id| id != 0)
NonZero(ids) == SelectSeq(ids, LAMBDA id : id # 0)

\* get_lca
GetLca(snapping, ids) ==
    LET aggregate == Aggregate(Count(NonZero(ids)))
    IN IF aggregate.ok THEN SnapTaxonId(snapping, aggregate.id) ELSE Panicked

Last(s) == s[Len(s)]
ButLast(s) == SubSeq(s, 1, Len(s) - 1)

\* stack_calculated_children.last_mut().unwrap().push(id)
PushToLast(lists, id) == Append(ButLast(lists), Append(Last(lists), id))

\* Mutant of PushChildList: no list is opened for the children.
KeepChildLists(lists) == lists

\* stack_calculated_children.push(vec![])
PushChildList(lists) == Append(lists, <<>>)

\* The (child, false) entries pushed for the children that are not NULL, in
\* the order of the children array.
ChildEntries(children) ==
    LET present == SelectSeq(children, LAMBDA child : ~IsNull(child))
    IN [i \in 1..Len(present) |-> <<present[i], FALSE>>]

LcaIdle ==
    /\ arena = <<>> /\ tree_proteins = <<>> /\ taxon_id = <<>> /\ stack = <<>>
    /\ stack_calculated_children = <<>> /\ write_log = <<>> /\ lpc = "idle"

\* The trees stack_calculate_lcas is run on: every arena of at most MaxNodes
\* nodes, and the tree of test_calculate_lcas.
LcaInputs ==
    {[arena |-> FixtureArena, proteins |-> FixtureProteins]}
    \cup UNION {UNION {{[arena |-> ArenaOf(p, l, n), proteins |-> ProteinsFrom(l, 0, n)] :
                           l \in Labels(p, n)} : p \in Shapes(n)} : n \in 1..MaxNodes}

LcaInit ==
    /\ \E input \in LcaInputs :
        /\ arena = input.arena
        /\ tree_proteins = input.proteins
    /\ taxon_id = [node \in DOMAIN arena |-> 1]
    /\ stack = << <<0, FALSE>> >>
    /\ stack_calculated_children = << <<>> >>
    /\ write_log = <<>>
    /\ lpc = "loop"

\* while let Some((node_index, visited)) = stack.pop(), visited: the
\* children are done, the node gets the LCA* of their taxon ids.
CalculateLca ==
    /\ lpc = "loop"
    /\ UNCHANGED <<searchVars, codecVars, ingestVars, searcherVars>>
    /\ stack # <<>> /\ Last(stack)[2]
    /\ stack' = ButLast(stack)
    /\ LET node_index == Last(stack)[1]
           new_taxon_id == GetLca(Snapping, Last(stack_calculated_children))
           popped == ButLast(stack_calculated_children)
       IN IF stack_calculated_children = <<>>
          THEN /\ lpc' = "unwrap_none"
               /\ UNCHANGED <<taxon_id, stack_calculated_children, write_log>>
          ELSE IF new_taxon_id.panic
          THEN /\ lpc' = "panic"
               /\ stack_calculated_children' = popped
               /\ UNCHANGED <<taxon_id, write_log>>
          ELSE /\ taxon_id' = [taxon_id EXCEPT ![node_index] = new_taxon_id.value]
               /\ write_log' = Append(write_log, node_index)
               /\ IF popped = <<>>
                  THEN lpc' = "unwrap_none" /\ stack_calculated_children' = popped
                  ELSE /\ lpc' = lpc
                       /\ stack_calculated_children' = PushToLast(popped, new_taxon_id.value)
    /\ UNCHANGED <<arena, tree_proteins>>

\* Not visited, a leaf: the node gets the snapped taxon id of its protein.
SnapLeaf ==
    /\ lpc = "loop"
    /\ UNCHANGED <<searchVars, codecVars, ingestVars, searcherVars>>
    /\ stack # <<>> /\ ~Last(stack)[2]
    /\ ~IsNull(arena[Last(stack)[1]].suffix_index)
    /\ stack' = ButLast(stack)
    /\ LET node_index == Last(stack)[1]
           new_taxon_id == SnapTaxonId(Snapping,
                                       tree_proteins[arena[node_index].suffix_index + 1])
       IN IF new_taxon_id.panic
          THEN lpc' = "panic" /\ UNCHANGED <<taxon_id, stack_calculated_children, write_log>>
          ELSE /\ taxon_id' = [taxon_id EXCEPT ![node_index] = new_taxon_id.value]
               /\ write_log' = Append(write_log, node_index)
               /\ IF stack_calculated_children = <<>>
                  THEN lpc' = "unwrap_none" /\ UNCHANGED stack_calculated_children
                  ELSE /\ lpc' = lpc
                       /\ stack_calculated_children' =
                              PushToLast(stack_calculated_children, new_taxon_id.value)
    /\ UNCHANGED <<arena, tree_proteins>>

\* Not visited, no leaf: the node comes back after its children.
ExpandNode ==
    /\ lpc = "loop"
    /\ UNCHANGED <<searchVars, codecVars, ingestVars, searcherVars>>
    /\ stack # <<>> /\ ~Last(stack)[2]
    /\ IsNull(arena[Last(stack)[1]].suffix_index)
    /\ stack_calculated_children' = PushChildList(stack_calculated_children)
    /\ LET node_index == Last(stack)[1]
       IN stack' = Append(ButLast(stack), <<node_index, TRUE>>)
                       \o ChildEntries(arena[node_index].children)
    /\ UNCHANGED <<arena, tree_proteins, taxon_id, write_log, lpc>>

\* stack.pop() gave None: the loop and the function are over.
ReturnLcas ==
    /\ lpc = "loop"
    /\ UNCHANGED <<searchVars, codecVars, ingestVars, searcherVars>>
    /\ stack = <<>>
    /\ lpc' = "done"
    /\ UNCHANGED <<arena, tree_proteins, taxon_id, stack, stack_calculated_children,
                   write_log>>

LcaNext ==
    \/ CalculateLca
    \/ SnapLeaf
    \/ ExpandNode
    \/ ReturnLcas

(***************************************************************************)
(* src/tree.rs, src/searcher.rs : search in the suffix tree                *)
(***************************************************************************)
MAX_CHILDREN == 28

\* The ASCII codes of the letters the model uses.
Ascii == ("A" :> 65) @@ ("B" :> 66) @@ ("C" :> 67)

\* Node::char_to_child_index
CharToChildIndex(character) ==
    IF character = "#" THEN 26
    ELSE IF character = "$" THEN 27
    ELSE Ascii[character] - 65

\* Range and Range::length
Range(start, end) == [start |-> start, end |-> end]
RangeLength(range) == range.end - range.start

\* Node::new_with_child_tuples: the children array is NULL but for the slots
\* of the given characters.
NewWithChildTuples(range, children_tuples, suffix_index) ==
    [range |-> range,
     children |-> [slot \in 0..(MAX_CHILDREN - 1) |->
                      IF \E t \in children_tuples : CharToChildIndex(t[1]) = slot
                      THEN (CHOOSE t \in children_tuples : CharToChildIndex(t[1]) = slot)[2]
                      ELSE NULL],
     suffix_index |-> suffix_index]

\* Node::get_child
GetChild(node, character) == node.children[CharToChildIndex(character)]

\* The text "AB#AC$" (offsets from 0) and its suffix tree.
OriginalInputString == <<"A", "B", "#", "A", "C", "$">>
ByteAt(text, offset) == text[offset + 1]

SuffixTree ==
    (0 :> NewWithChildTuples(Range(0, 0),
              {<<"A", 1>>, <<"B", 4>>, <<"C", 5>>, <<"#", 6>>, <<"$", 7>>}, NULL))
    @@ (1 :> NewWithChildTuples(Range(0, 1), {<<"B", 2>>, <<"C", 3>>}, NULL))
    @@ (2 :> NewWithChildTuples(Range(1, 6), {}, 0))
    @@ (3 :> NewWithChildTuples(Range(4, 6), {}, 3))
    @@ (4 :> NewWithChildTuples(Range(1, 6), {}, 1))
    @@ (5 :> NewWithChildTuples(Range(4, 6), {}, 4))
    @@ (6 :> NewWithChildTuples(Range(2, 6), {}, 2))
    @@ (7 :> NewWithChildTuples(Range(5, 6), {}, 5))

\* ReadOnlyCursor: the node the cursor is in and how many characters of the
\* edge into that node it has passed.
Cursor(node, index) == [current_node_index_in_arena |-> node, index |-> index]

\* ReadOnlyCursor::new, ReadOnlyCursor::reset
RootCursor == Cursor(0, 0)
CursorReset(c) == RootCursor

CursorAtEnd(tree, c) == c.index = RangeLength(tree[c.current_node_index_in_arena].range)

\* ReadOnlyCursor::next: at the end of an edge the cursor enters the child of
\* the character, within an edge it passes the next character of the edge; a
\* character that does not fit leaves the cursor where it is.
CursorNext(tree, text, c, character) ==
    LET node == tree[c.current_node_index_in_arena]
        child == GetChild(node, character)
    IN IF CursorAtEnd(tree, c)
       THEN IF IsNull(child) THEN [ret |-> "AtEnd", cursor |-> c]
            ELSE [ret |-> "Ok", cursor |-> Cursor(child, 1)]
       ELSE IF ByteAt(text, node.range.start + c.index) = character
            THEN [ret |-> "Ok", cursor |-> Cursor(c.current_node_index_in_arena, c.index + 1)]
            ELSE [ret |-> "InWord", cursor |-> c]

\* The calls of cursor.next in find_end_node, from character index_in_string
\* (counted from 1) on.
RECURSIVE NextWhileOk(_, _, _, _, _)
NextWhileOk(tree, text, c, search_string, index_in_string) ==
    LET step == CursorNext(tree, text, c, search_string[index_in_string])
    IN IF step.ret = "Ok" /\ index_in_string < Len(search_string)
       THEN NextWhileOk(tree, text, step.cursor, search_string, index_in_string + 1)
       ELSE [ret |-> step.ret, cursor |-> step.cursor, index_in_string |-> index_in_string]

\* find_end_node
FindEndNode(tree, text, c, search_string) ==
    IF search_string = <<>> THEN [match_found |-> TRUE, end_node |-> 0, cursor |-> c]
    ELSE LET walk == NextWhileOk(tree, text, c, search_string, 1)
         IN [match_found |-> walk.index_in_string = Len(search_string) /\ walk.ret = "Ok",
             end_node |-> walk.cursor.current_node_index_in_arena,
             cursor |-> walk.cursor]

\* The children of a node that are not NULL, in the order of the array.
PresentChildren(node) ==
    SelectSeq([i \in 1..MAX_CHILDREN |-> node.children[i - 1]], LAMBDA child : ~IsNull(child))

\* The while loop of search_protein: the suffix indices of the leaves under
\* the nodes of the stack.
RECURSIVE CollectSuffixIndices(_, _, _)
CollectSuffixIndices(tree, node_stack, suffix_indices_list) ==
    IF node_stack = <<>> THEN suffix_indices_list
    ELSE LET current_node == tree[Last(node_stack)]
         IN IF ~IsNull(current_node.suffix_index)
            THEN CollectSuffixIndices(tree, ButLast(node_stack),
                                      Append(suffix_indices_list, current_node.suffix_index))
            ELSE CollectSuffixIndices(tree, ButLast(node_stack) \o PresentChildren(current_node),
                                      suffix_indices_list)

\* The two while loops over original_input_string: back to the start of the
\* protein, on to its end.
RECURSIVE ProteinBegin(_, _)
ProteinBegin(text, begin) ==
    IF begin > 0 /\ ByteAt(text, begin - 1) # "#" THEN ProteinBegin(text, begin - 1) ELSE begin

RECURSIVE ProteinEnd(_, _)
ProteinEnd(text, end) ==
    IF ByteAt(text, end) # "$" /\ ByteAt(text, end) # "#" THEN ProteinEnd(text, end + 1) ELSE end

\* &original_input_string[begin..end]
ProteinAt(text, index) == SubSeq(text, ProteinBegin(text, index) + 1, ProteinEnd(text, index))

\* search_protein: the solutions and the cursor it leaves behind.
SearchProteinFrom(tree, text, c, search_string) ==
    LET found == FindEndNode(tree, text, c, search_string)
        suffix_indices_list == CollectSuffixIndices(tree, <<found.end_node>>, <<>>)
    IN IF ~found.match_found THEN [solutions_list |-> <<>>, cursor |-> found.cursor]
       ELSE [solutions_list |-> [i \in 1..Len(suffix_indices_list) |->
                                    ProteinAt(text, suffix_indices_list[i])],
             cursor |-> CursorReset(found.cursor)]

\* The strings searched for.
SearchStrings == SeqsUpTo({"A", "B", "C"}, MaxSearchLen)

SearcherIdle ==
    /\ cursor = RootCursor /\ searched = <<>> /\ solutions_list = <<>> /\ spc = "idle"

\* Searcher::new
SearcherInit ==
    /\ cursor = RootCursor
    /\ searched = <<>>
    /\ solutions_list = <<>>
    /\ spc = "ready"

\* One call of search_protein.
SearchProtein ==
    /\ spc = "ready"
    /\ UNCHANGED <<searchVars, codecVars, ingestVars, lcaVars>>
    /\ Len(searched) < MaxSearches
    /\ \E search_string \in SearchStrings :
        LET outcome == SearchProteinFrom(SuffixTree, OriginalInputString, cursor, search_string)
        IN /\ searched' = Append(searched, search_string)
           /\ solutions_list' = outcome.solutions_list
           /\ cursor' = outcome.cursor
    /\ UNCHANGED spc

SearcherNext == SearchProtein

(***************************************************************************)
(* Specifications, one per program.                                        *)
(***************************************************************************)
Init == SearchInit /\ CodecIdle /\ IngestIdle /\ LcaIdle /\ SearcherIdle
Next == SearchNext
Spec == Init /\ [][Next]_vars

CodecStart == CodecInit /\ SearchIdle /\ IngestIdle /\ LcaIdle /\ SearcherIdle
CodecSpec == CodecStart /\ [][CodecNext]_vars

IngestStart == IngestInit /\ SearchIdle /\ CodecIdle /\ LcaIdle /\ SearcherIdle
IngestSpec == IngestStart /\ [][IngestNext]_vars

LcaStart == LcaInit /\ SearchIdle /\ CodecIdle /\ IngestIdle /\ SearcherIdle
LcaSpec == LcaStart /\ [][LcaNext]_vars

SearcherStart ==
    SearcherInit /\ SearchIdle /\ CodecIdle /\ IngestIdle /\ LcaIdle
SearcherSpec == SearcherStart /\ [][SearcherNext]_vars


(***************************************************************************)
(* Claims about execute_search and search_peptide, checked under Spec.     *)
(***************************************************************************)
Indices == 1..Len(all_peptides)

\* The peptide of input line i as the claims describe it: upper-cased, its
\* length unchanged by the L-to-I replacement.
UpperQuery(i) == ToUppercase(all_peptides[i])

IsShort(i) == Len(UpperQuery(i)) < sample_rate

\* C1: standard output has exactly one line per input peptide, and line i is
\* "<peptide i>;<result of peptide i>", in every mode and for every
\* interleaving of the workers.
C1_OutputMatchesInputByIndex ==
    pc = "done" =>
        /\ Len(stdout) = Len(all_peptides)
        /\ \A i \in Indices :
              i <= Len(stdout) => stdout[i] = all_peptides[i] \o <<";">> \o results[i]

\* C2: in TaxonId mode a reported cutoff gives exactly the id 1, with no
\* protein resolved and no LCA computed; otherwise the id emitted is the one
\* retrieve_lca gave for the proteins retrieve_proteins resolved from the
\* suffixes found, or "/" when it gave none.
C2_CutoffEmitsRoot ==
    mode = "TaxonId" =>
        \A i \in processed :
            calls[i] # <<>> =>
                LET search == calls[i][1]
                IN  /\ search.op = "search_matching_suffixes"
                    /\ IF search.ret[1]
                       THEN /\ results[i] = <<"1">>
                            /\ Len(calls[i]) = 1
                       ELSE /\ Len(calls[i]) = 3
                            /\ calls[i][2].op = "retrieve_proteins"
                            /\ calls[i][2].arg = search.ret[2]
                            /\ calls[i][3].op = "retrieve_lca"
                            /\ calls[i][3].arg = calls[i][2].ret
                            /\ IF calls[i][3].ret.some
                               THEN /\ \A j \in 1..Len(results[i]) : IsDigit(results[i][j])
                                    /\ DigitsValue(results[i], 0) = calls[i][3].ret.id
                               ELSE results[i] = <<"/">>

\* C2 witness: the search is over, one peptide hit the cutoff and got "1",
\* another did not and got the LCA.
C2_Witness ==
    /\ pc = "done" /\ mode = "TaxonId"
    /\ \E i, j \in processed :
          /\ calls[i] # <<>> /\ calls[i][1].ret[1] /\ results[i] = <<"1">>
          /\ calls[j] # <<>> /\ ~calls[j][1].ret[1] /\ results[j] = <<"6">>

\* C6: a peptide strictly shorter than the sample rate is rejected and no
\* searcher operation is invoked for it; a peptide of length >= the sample
\* rate, the sample rate itself included, is passed to the searcher.
C6_ShortPeptidesRejected ==
    \A i \in processed :
        IF IsShort(i)
        THEN calls[i] = <<>> /\ results[i] = <<>>
        ELSE /\ calls[i] # <<>>
             /\ calls[i][1].op \in SearchOps
             /\ Len(calls[i][1].peptide) = Len(UpperQuery(i))

\* C6 witness: a peptide of exactly the sample rate was searched and a
\* shorter one was rejected.
C6_Witness ==
    \E i, j \in processed :
        /\ Len(UpperQuery(i)) = sample_rate /\ calls[i] # <<>>
        /\ IsShort(j) /\ calls[j] = <<>>

\* C7: a per-query error is surfaced in that query's own output line, as "/"
\* or a diagnostic, and every other peptide still gets its result line.
C7_ErrorInOwnOutputLine ==
    pc = "done" =>
        \A i \in Indices :
            \E k \in 1..Len(stdout) :
                IF IsShort(i)
                THEN \/ stdout[k] = all_peptides[i] \o <<";", "/">>
                     \/ stdout[k] = all_peptides[i] \o <<";">> \o TooShortDiagnostic
                ELSE stdout[k] = all_peptides[i] \o <<";">> \o results[i]

\* C8: with the I/L flag the searcher gets the upper-cased query with every
\* 'L' replaced by 'I' (same length, other characters unchanged, no 'L'
\* left); without it, the upper-cased query as it is.  The flag is forwarded.
C8_PeptideCanonicalised ==
    \A i \in processed :
        \A n \in 1..Len(calls[i]) :
            calls[i][n].op \in SearchOps =>
                LET given == calls[i][n].peptide
                    upper == UpperQuery(i)
                IN  /\ calls[i][n].flag = equalize_i_and_l
                    /\ Len(given) = Len(upper)
                    /\ IF equalize_i_and_l
                       THEN /\ \A j \in 1..Len(upper) :
                                  given[j] = IF upper[j] = "L" THEN "I" ELSE upper[j]
                            /\ \A j \in 1..Len(given) : given[j] # "L"
                       ELSE given = upper

\* C8 witness: with the flag set, a query holding an 'l' and an 'I' was
\* handed to the searcher.
C8_Witness ==
    /\ equalize_i_and_l
    /\ \E i \in processed :
          /\ calls[i] # <<>>
          /\ \E j \in 1..Len(all_peptides[i]) : all_peptides[i][j] = "l"
          /\ \E j \in 1..Len(all_peptides[i]) : all_peptides[i][j] = "I"


(***************************************************************************)
(* Claims about the index codec, checked under CodecSpec.                  *)
(***************************************************************************)
\* Byte j (0..7) of the little-endian two's-complement form of a value that
\* fits 32 bits: the four low bytes by division, the four high bytes the
\* sign extension.
TwosComplementByte(v, j) ==
    IF j < 4 THEN (v \div (256 ^ j)) % 256 ELSE IF v < 0 THEN 255 ELSE 0

\* C3: serialize(xs) has exactly 8*len(xs) bytes, entry i in bytes 8i..8i+7
\* in little-endian two's-complement order, and deserialize_sa gives xs
\* back, the empty sequence and negative values included.
C3_SerializeRoundTrip ==
    LET bytes == Serialize(suffix_array)
    IN  /\ Len(bytes) = 8 * Len(suffix_array)
        /\ \A i \in 1..Len(suffix_array) : \A j \in 0..7 :
              bytes[8 * (i - 1) + j + 1] = TwosComplementByte(suffix_array[i], j)
        /\ DeserializeSa(bytes) = [panic |-> FALSE, value |-> suffix_array]

\* C3 witness: an array with a negative and a positive entry went through
\* serialize (write_binary) and deserialize_sa (read_sa_file).
C3_Witness ==
    /\ cpc = "loaded" /\ ~tampered
    /\ \E i, j \in 1..Len(suffix_array) : suffix_array[i] < 0 /\ suffix_array[j] > 255
    /\ sa = suffix_array

\* C4: the file write_binary produces holds the sample rate in byte 0 and
\* then the entries back-to-back, whatever the chunking; load_binary on it
\* returns exactly (k, sa).
C4_IndexFileRoundTrip ==
    ~tampered =>
        /\ cpc \in {"written", "read", "loaded"} =>
              file = <<rate_byte>> \o Serialize(suffix_array)
        /\ cpc = "loaded" => loaded_rate = rate_byte /\ sa = suffix_array
        /\ cpc \notin {"panic", "io_error"}

\* C4 witness: an array of more than one chunk, the last chunk not full, was
\* written and loaded.
C4_Witness ==
    /\ cpc = "loaded" /\ ~tampered
    /\ Len(suffix_array) > ChunkEntries
    /\ Len(suffix_array) % ChunkEntries # 0

\* C5: when the bytes after the sample-rate byte are not a multiple of 8 the
\* read fails and returns no array; when they are, it succeeds with len/8
\* entries.
C5_ReaderRejectsPartialEntry ==
    LET remaining == Len(file) - 1
    IN  /\ cpc = "loaded" => remaining % 8 = 0 /\ Len(sa) = remaining \div 8
        /\ cpc = "panic" => remaining % 8 # 0
        /\ cpc = "io_error" => Len(file) = 0
        /\ cpc = "read" => pos <= Len(file) /\ Len(sa) * 8 = pos - 1

\* C5 witness: a file cut inside an entry of its second chunk: the first
\* chunk was taken, then the read failed.
C5_Witness == cpc = "panic" /\ tampered /\ Len(sa) > 0


(***************************************************************************)
(* Claims about the ingestion of the database, checked under IngestSpec.   *)
(***************************************************************************)
\* The lines consumed so far.
LinesRead == SubSeq(database, 1, line_no)

\* A row whose taxon id the taxonomy knows.
HasKnownTaxon(line) ==
    LET fields == SplitTab(line)
    IN  /\ Len(fields) >= 2
        /\ ParseTaxonId(fields[2]).ok
        /\ TaxonExists(ParseTaxonId(fields[2]).value)

\* The database with the rows of unknown taxon removed.
KnownRows(lines) == SelectSeq(lines, HasKnownTaxon)

\* The whole of get_proteins_from_database_file / get_text_from_database_file
\* on a file that reads without failure.
RECURSIVE ProteinsLoop(_, _)
ProteinsLoop(st, lines) ==
    IF lines = <<>> \/ st.status # "loop" THEN st
    ELSE ProteinsLoop(ProteinsRow(st, Head(lines)), Tail(lines))

RECURSIVE TextLoop(_, _)
TextLoop(st, lines) ==
    IF lines = <<>> \/ st.status # "loop" THEN st
    ELSE TextLoop(TextRow(st, Head(lines)), Tail(lines))

Fresh == IngestState(<<>>, <<>>, 0, "loop")

ProteinsOf(lines) == ProteinsEnd(ProteinsLoop(Fresh, lines))
TextOf(lines) == TextEnd(TextLoop(Fresh, lines))

\* Number of positions of text t that hold character c.
Occurrences(t, c) == Cardinality({j \in 1..Len(t) : t[j] = c})

\* C9: in the result of get_proteins_from_database_file, T[start..start+length]
\* is the upper-cased sequence of each protein, the first starts at 0, each
\* next one at start + length + 1 with the separator in between, and T has
\* exactly one terminator, at its last position.
C9_TextAndProteinTable ==
    (ipc = "ok" /\ reader = "proteins") =>
        LET T == input_string
            rows == KnownRows(LinesRead)
            start(i) == proteins[i].sequence[1]
            length(i) == proteins[i].sequence[2]
        IN  /\ Len(proteins) = Len(rows)
            /\ \A i \in 1..Len(proteins) :
                  /\ start(i) + length(i) < Len(T)
                  /\ SubSeq(T, start(i) + 1, start(i) + length(i))
                        = ToUppercase(SplitTab(rows[i])[3])
            /\ Len(proteins) > 0 => start(1) = 0
            /\ \A i \in 1..(Len(proteins) - 1) :
                  /\ start(i + 1) = start(i) + length(i) + 1
                  /\ T[start(i) + length(i) + 1] = "-"
            /\ Len(T) > 0 /\ T[Len(T)] = "$"
            /\ Occurrences(T, "$") = 1

\* C9 witness: three rows read, the first accepted with an empty sequence,
\* the second skipped, the third accepted.
C9_Witness ==
    /\ ipc = "ok" /\ reader = "proteins" /\ line_no = 3
    /\ Len(proteins) = 2
    /\ proteins[1].sequence = <<0, 0>>
    /\ proteins[2].sequence[2] > 0
    /\ ~HasKnownTaxon(database[2])

\* C10: rows of unknown taxon are dropped without error: the text and the
\* protein table are those of the same database without these rows; when
\* every row is dropped the text is just the terminator.
C10_UnknownTaxaDropped ==
    ipc = "ok" =>
        /\ reader = "proteins" =>
              /\ ProteinsOf(KnownRows(LinesRead)).status = "ok"
              /\ input_string = ProteinsOf(KnownRows(LinesRead)).input_string
              /\ proteins = ProteinsOf(KnownRows(LinesRead)).proteins
        /\ reader = "text" =>
              /\ TextOf(KnownRows(LinesRead)).status = "ok"
              /\ input_string = TextOf(KnownRows(LinesRead)).input_string
        /\ KnownRows(LinesRead) = <<>> =>
              input_string = IF reader = "text" THEN <<TERMINATION_CHARACTER>> ELSE <<"$">>

\* C10 witness: three rows read by get_proteins_from_database_file, the
\* first and the last dropped, the middle one kept.
C10_Witness ==
    /\ ipc = "ok" /\ reader = "proteins" /\ line_no = 3
    /\ ~HasKnownTaxon(database[1])
    /\ HasKnownTaxon(database[2])
    /\ ~HasKnownTaxon(database[3])
    /\ Len(proteins) = 1


(***************************************************************************)
(* Claims about calculate_lcas, checked under LcaSpec.                     *)
(***************************************************************************)
NodeIndices == DOMAIN arena

IsLeaf(node) == ~IsNull(arena[node].suffix_index)

\* The children of a node that are not NULL.
ChildrenOf(node) == SelectSeq(arena[node].children, LAMBDA child : ~IsNull(child))

\* The taxon id of the protein a leaf points to.
ProteinTaxon(node) == tree_proteins[arena[node].suffix_index + 1]

\* The snapped taxon ids of the leaves in the subtree of a node.
RECURSIVE LeafTaxaBelow(_)
LeafTaxaBelow(node) ==
    IF IsLeaf(node) THEN <<SnapTaxonId(Snapping, ProteinTaxon(node)).value>>
    ELSE Flatten([i \in 1..Len(ChildrenOf(node)) |-> LeafTaxaBelow(ChildrenOf(node)[i])])

IsFixture == arena = FixtureArena /\ tree_proteins = FixtureProteins

\* C11: once calculate_lcas has returned, every leaf holds the snapped taxon
\* id of its protein and every other node holds the LCA* (0 discarded, result
\* snapped) of the taxa of all the leaves in its subtree; on the test fixture
\* the node over {10, 9} holds 6, the root 1 and the leaf with taxon 20 holds 20.
C11_NodesHoldSubtreeLca ==
    lpc = "done" =>
        /\ \A node \in NodeIndices :
              IF IsLeaf(node)
              THEN Returned(taxon_id[node]) = SnapTaxonId(Snapping, ProteinTaxon(node))
              ELSE Returned(taxon_id[node]) = GetLca(Snapping, LeafTaxaBelow(node))
        /\ IsFixture => taxon_id[1] = 6 /\ taxon_id[0] = 1 /\ taxon_id[2] = 20

\* The next step aggregates the child list of a node, and nothing is left of
\* that list once id 0 is discarded.
AggregatesEmptyList ==
    /\ lpc = "loop" /\ stack # <<>> /\ Last(stack)[2]
    /\ stack_calculated_children # <<>>
    /\ NonZero(Last(stack_calculated_children)) = <<>>

\* C12: the aggregation of an empty multiset of taxon ids, or of one that is
\* empty once id 0 is discarded (a node without children, or whose children
\* all carry taxon 0), returns NULL and does not abort.
C12_EmptyAggregationReturnsNull ==
    /\ AggregatesEmptyList =>
           GetLca(Snapping, Last(stack_calculated_children)) = Returned(NULL)
    /\ lpc # "panic"

(***************************************************************************)
(* Claims about read failures and malformed rows, checked under IngestSpec.*)
(***************************************************************************)
\* C13: a failure to read a line of the query file (execute_search) or of the
\* protein database (get_proteins_from_database_file) is fatal: the operation
\* never completes successfully with only the lines before the failing one.
C13_ReadFailureIsFatal ==
    /\ reader = "proteins" /\ ipc = "ok" => fail_at = 0
    /\ pc = "done" => query_fail_at = 0

\* A row that does not have exactly three tab-separated fields.
Malformed(line) == Len(SplitTab(line)) # 3

\* A row of three fields whose second field is an integer.
WellFormed(line) == Len(SplitTab(line)) = 3 /\ ParseTaxonId(SplitTab(line)[2]).ok

\* C14: get_proteins_from_database_file ends with a DatabaseFormat error, and
\* with no Proteins value, as soon as it meets a row that does not have exactly
\* three tab-separated fields, whatever the rows before it were and whatever
\* the taxon id of the row; the error comes from such a row only, so a file
\* whose rows all have three fields and an integer taxon id never yields it.
C14_MalformedRowIsFormatError ==
    reader = "proteins" =>
        /\ \A j \in 1..line_no :
              Malformed(database[j]) => j = line_no /\ ipc = "format_error"
        /\ ipc = "format_error" => line_no >= 1 /\ Malformed(database[line_no])
        /\ (\A j \in 1..Len(database) : WellFormed(database[j])) => ipc # "format_error"

\* The third row has two fields and a taxon id that is no integer; the rows
\* before it were one taken and one skipped.
C14_Witness ==
    /\ reader = "proteins" /\ ipc = "format_error" /\ line_no = 3
    /\ Malformed(database[3]) /\ ~ParseTaxonId(SplitTab(database[3])[2]).ok
    /\ Len(proteins) = 1
    /\ \E j \in 1..2 : WellFormed(database[j]) /\ ~HasKnownTaxon(database[j])

(***************************************************************************)
(* Claims about the loop of stack_calculate_lcas, checked under LcaSpec.   *)
(***************************************************************************)
\* The nodes that can be reached from a node along children that are not NULL.
RECURSIVE ReachableFrom(_)
ReachableFrom(node) ==
    {node} \cup UNION {ReachableFrom(ChildrenOf(node)[i]) : i \in 1..Len(ChildrenOf(node))}

WrittenNodes == {write_log[i] : i \in DOMAIN write_log}

\* The taxon ids the children of a node hold.
ChildTaxa(node) == [i \in 1..Len(ChildrenOf(node)) |-> taxon_id[ChildrenOf(node)[i]]]

\* No node is written twice; a node that is no leaf is written after all its
\* children, with the LCA* of the taxon ids they hold; when the function has
\* returned, every node reachable from the root has been written.
PostOrderWrites ==
    /\ \A i, j \in DOMAIN write_log : write_log[i] = write_log[j] => i = j
    /\ \A i \in DOMAIN write_log :
          LET node == write_log[i]
          IN ~IsLeaf(node) =>
                /\ \A k \in 1..Len(ChildrenOf(node)) :
                      \E j \in 1..(i - 1) : write_log[j] = ChildrenOf(node)[k]
                /\ Returned(taxon_id[node]) = GetLca(Snapping, ChildTaxa(node))
    /\ lpc = "done" => WrittenNodes = ReachableFrom(0)

\* C15: stack_calculate_lcas terminates on every finite tree, without abort,
\* and follows a post-order protocol: every node reachable from the root has
\* its taxon_id written exactly once, a node that is no leaf only after all
\* its children that are not NULL, from exactly their final taxon ids.
C15_PostOrderProtocol ==
    /\ lpc \notin {"panic", "unwrap_none"}
    /\ PostOrderWrites

\* The (node, true) entries on the work stack.
VisitedEntries == Cardinality({i \in DOMAIN stack : stack[i][2]})

\* C16: in every reachable state of stack_calculate_lcas there is one pending
\* list of child results more than there are (node, visited = true) entries on
\* the work stack, so no pop of, or push to, the top list meets an empty stack
\* of lists; when the function returns, exactly one list is left and it holds
\* exactly the taxon id of the root.
C16_OneListPerOpenNode ==
    /\ Len(stack_calculated_children) = 1 + VisitedEntries
    /\ lpc # "unwrap_none"
    /\ lpc = "done" => stack_calculated_children = << <<taxon_id[0]>> >>

\* The function has returned on a tree with a node under the root that has
\* children of its own.
C16_Witness ==
    /\ lpc = "done"
    /\ \E node \in NodeIndices \ {0} : ~IsLeaf(node) /\ Len(ChildrenOf(node)) >= 2

(***************************************************************************)
(* Claim about Searcher::search_protein, checked under SearcherSpec.       *)
(***************************************************************************)
\* C17: the result of search_protein depends on the tree, the text and the
\* search string only: after any sequence of searches, matching or not, the
\* cursor is back at the root, so the last search returned what it returns
\* on a fresh Searcher.
C17_SearchIndependentOfHistory ==
    spc = "ready" =>
        /\ cursor = RootCursor
        /\ searched # <<>> =>
              solutions_list = SearchProteinFrom(SuffixTree, OriginalInputString,
                                                 RootCursor, Last(searched)).solutions_list

====
